---- MODULE Spec2Model ----
(***************************************************************************)
(* Model of the terminal video player of src/main.cpp: the color cache     *)
(* (quantizer, escape-code cache, statistics), the frame-to-text renderer  *)
(* and the playback loops of ASCIIVideoPlayer, together with main().       *)
(*                                                                         *)
(* Escape codes are strings; the ESC byte (\033) is written "ESC".         *)
(* Floating-point expressions of the source are modelled by exact integer  *)
(* or rational arithmetic where the two agree on every input in range      *)
(* (noted at each definition).                                             *)
(***************************************************************************)
EXTENDS Integers, Sequences, FiniteSets, TLC

VARIABLES
    current_color_mode,   \* ASCIIVideoPlayer::current_color_mode
    color_cache_8bit,     \* ColorKey -> escape code (Indexed256)
    color_cache_24bit,    \* ColorKey -> escape code (TrueColor24)
    rgb_to_8bit_cache,    \* packed RGB -> palette index
    cache_stats,          \* CacheStats: hits, misses, cache_size
    trace,                \* history: the cache operations performed so far
    frame,                \* cv::Mat frame: the raster last read (or to render)
    width, height,        \* the target box (0: auto-size from the terminal)
    block_mode,           \* filled-block style requested
    rendered,             \* the last render: text buffer, size, threw
    renders,              \* number of frames rendered so far
    pc,                   \* where the process is: main, info, loop, cleanup,
                          \*   exited
    variant,              \* "file" (playVideoAscii) or "camera" (playFromCamera)
    exit_code,            \* the process's exit code, once pc = "exited"
    exit_path,            \* how the process ended
    tty,                  \* the terminal: canonical mode and echo, cursor
                          \*   visible, alternate screen
    terminal_modified,    \* ASCIIVideoPlayer::terminal_modified
    original_termios,     \* the settings TerminalGuard saved
    paused, fullscreen_mode, speed_multiplier, frame_number,
    original_width, original_height,   \* locals of the playback loops
    source_left,          \* frames the opened file still holds
    keys_typed,           \* number of keys read so far
    last_key,             \* the key read last ("" before the first)
    slept,                \* the iteration completed last called sleep_for
    arg,                  \* input of the pure function under check
    res                   \* its result (<<>> before it was applied)

cacheVars == <<current_color_mode, color_cache_8bit, color_cache_24bit,
               rgb_to_8bit_cache, cache_stats>>
pureVars == <<arg, res>>
renderVars == <<frame, width, height, block_mode, rendered, renders>>
termVars == <<tty, terminal_modified, original_termios>>
loopVars == <<paused, fullscreen_mode, speed_multiplier, frame_number,
              original_width, original_height, source_left>>
ctlVars == <<pc, variant, exit_code, exit_path, termVars, loopVars,
             keys_typed, last_key, slept>>
vars == <<cacheVars, trace, pureVars, renderVars, ctlVars>>

(***************************************************************************)
(* Bounds of the model.                                                    *)
(***************************************************************************)
MaxTrace == 4
MaxCols == 2       \* widest source raster
MaxRows == 2       \* tallest source raster
MaxRenders == 2    \* frames rendered in one behaviour
MaxFrames == 2     \* most frames a video file holds
MaxKeys == 2       \* keys typed during one run of the process
MaxBurst == 4      \* keys one poll of the terminal delivers
MaxLoopKeys == 1   \* keys typed during one run of a loop on its own

(***************************************************************************)
(* enum ColorMode and the colors the model draws pixels and keys from.     *)
(***************************************************************************)
MONO == 0
COLOR_8BIT == 1
COLOR_24BIT == 2
ColorModes == {MONO, COLOR_8BIT, COLOR_24BIT}

Byte == 0..255

\* RGB triples: red, magenta (differs from red in blue only), white.
Palette == {<<255, 0, 0>>, <<255, 0, 255>>, <<255, 255, 255>>}

\* struct ColorKey {r, g, b, background}; equality is field-wise.
ColorKey(r, g, b, background) == <<r % 256, g % 256, b % 256, background>>
Keys == {ColorKey(c[1], c[2], c[3], bg) : c \in Palette, bg \in BOOLEAN}

EmptyMap == [k \in {} |-> 0]
Put(m, k, v) == [x \in DOMAIN m \cup {k} |-> IF x = k THEN v ELSE m[x]]
Size(m) == Cardinality(DOMAIN m)

(***************************************************************************)
(* The cache as one value, so that an operation that is called from        *)
(* another one (the renderer calls the lookup once per pixel) is a         *)
(* function from cache to cache.                                           *)
(***************************************************************************)
NewCacheStats == [hits |-> 0, misses |-> 0, cache_size |-> 0]

CacheState ==
    [mode |-> current_color_mode,
     c8 |-> color_cache_8bit,
     c24 |-> color_cache_24bit,
     rgb |-> rgb_to_8bit_cache,
     stats |-> cache_stats]

SetCache(cs) ==
    /\ current_color_mode' = cs.mode
    /\ color_cache_8bit' = cs.c8
    /\ color_cache_24bit' = cs.c24
    /\ rgb_to_8bit_cache' = cs.rgb
    /\ cache_stats' = cs.stats

\* The total without rgb_to_8bit_cache.size().
TotalSize_noRgb(cs) == Size(cs.c8) + Size(cs.c24)

TotalSize(cs) == Size(cs.rgb) + Size(cs.c8) + Size(cs.c24)

\* packRGB with the blue byte taken from green (a mistyped operand).
packRGB_dropBlue(r, g, b) == r * 65536 + g * 256 + g

\* (r << 16) | (g << 8) | b, for bytes.
packRGB(r, g, b) == r * 65536 + g * 256 + b

\* The grayscale ramp scaled by 25 instead of 24.
quantize_ramp25(r, g, b) ==
    IF r = g /\ g = b
    THEN IF r < 8 THEN 16
         ELSE IF r > 248 THEN 231
         ELSE ((r - 8) * 25) \div 247 + 232
    ELSE 16 + 36 * ((r * 5) \div 255) + 6 * ((g * 5) \div 255) + ((b * 5) \div 255)

(***************************************************************************)
(* The computation of rgbTo8BitColorCached on a miss.  static_cast<int> of *)
(* ((r - 8) / 247.0) * 24 and of (r / 255.0) * 5 truncates; for every byte *)
(* the double result truncates to the exact quotient computed here.        *)
(***************************************************************************)
quantize(r, g, b) ==
    IF r = g /\ g = b
    THEN IF r < 8 THEN 16
         ELSE IF r > 248 THEN 231
         ELSE ((r - 8) * 24) \div 247 + 232
    ELSE LET ir == (r * 5) \div 255
             ig == (g * 5) \div 255
             ib == (b * 5) \div 255
         IN 16 + (36 * ir) + (6 * ig) + ib

\* Returns the cache after the call, the index returned, and whether it hit.
rgbTo8BitColorCached(cs, r, g, b) ==
    LET rgb_key == packRGB(r, g, b) IN
    IF rgb_key \in DOMAIN cs.rgb
    THEN [cs |-> [cs EXCEPT !.stats.hits = @ + 1],
          ret |-> cs.rgb[rgb_key],
          hit |-> TRUE]
    ELSE LET color == quantize(r, g, b)
             c1 == [cs EXCEPT !.stats.misses = @ + 1]
             c2 == [c1 EXCEPT !.rgb = Put(@, rgb_key, color)]
             c3 == [c2 EXCEPT !.stats.cache_size = TotalSize(c2)]
         IN [cs |-> c3, ret |-> color, hit |-> FALSE]

\* The select-graphic-rendition parameter of the foreground for both grounds.
SgrParam_foreground(background) == ToString(38)

SgrParam(background) == ToString(IF background THEN 48 ELSE 38)

\* Returns the cache after the call and the escape code; index is the value
\* the nested quantizer call returned (-1 when it was not called) and qhit
\* whether that call hit rgb_to_8bit_cache.
getColorCodeCached(cs, r, g, b, background) ==
    LET key == ColorKey(r, g, b, background) IN
    IF cs.mode = MONO THEN [cs |-> cs, ret |-> "", index |-> -1, hit |-> FALSE, qhit |-> FALSE]
    ELSE IF cs.mode = COLOR_8BIT
    THEN IF key \in DOMAIN cs.c8
         THEN [cs |-> [cs EXCEPT !.stats.hits = @ + 1],
               ret |-> cs.c8[key], index |-> -1, hit |-> TRUE, qhit |-> FALSE]
         ELSE LET c1 == [cs EXCEPT !.stats.misses = @ + 1]
                  q == rgbTo8BitColorCached(c1, r, g, b)
                  code == "ESC[" \o SgrParam(background) \o ";5;"
                          \o ToString(q.ret) \o "m"
                  c2 == [q.cs EXCEPT !.c8 = Put(@, key, code)]
                  c3 == [c2 EXCEPT !.stats.cache_size = TotalSize(c2)]
              IN [cs |-> c3, ret |-> code, index |-> q.ret, hit |-> FALSE,
                  qhit |-> q.hit]
    ELSE IF cs.mode = COLOR_24BIT
    THEN IF key \in DOMAIN cs.c24
         THEN [cs |-> [cs EXCEPT !.stats.hits = @ + 1],
               ret |-> cs.c24[key], index |-> -1, hit |-> TRUE, qhit |-> FALSE]
         ELSE LET c1 == [cs EXCEPT !.stats.misses = @ + 1]
                  code == "ESC[" \o SgrParam(background) \o ";2;"
                          \o ToString(r) \o ";" \o ToString(g) \o ";"
                          \o ToString(b) \o "m"
                  c2 == [c1 EXCEPT !.c24 = Put(@, key, code)]
                  c3 == [c2 EXCEPT !.stats.cache_size = TotalSize(c2)]
              IN [cs |-> c3, ret |-> code, index |-> -1, hit |-> FALSE, qhit |-> FALSE]
    ELSE [cs |-> cs, ret |-> "", index |-> -1, hit |-> FALSE, qhit |-> FALSE]

resetColor(mode) == IF mode # MONO THEN "ESC[0m" ELSE ""

\* setColorMode that clears no cache.
setColorMode_keepCaches(cs, mode) == [cs EXCEPT !.mode = mode]

setColorMode(cs, mode) ==
    IF cs.mode # mode
    THEN LET c1 == [cs EXCEPT !.mode = mode]
             c2 == IF mode # COLOR_8BIT
                   THEN [c1 EXCEPT !.c8 = EmptyMap, !.rgb = EmptyMap]
                   ELSE c1
             c3 == IF mode # COLOR_24BIT
                   THEN [c2 EXCEPT !.c24 = EmptyMap]
                   ELSE c2
         IN [c3 EXCEPT !.stats.cache_size = TotalSize(c3)]
    ELSE cs

\* clearColorCaches without rgb_to_8bit_cache.clear().
clearColorCaches_keepRgb(cs) ==
    [cs EXCEPT !.c8 = EmptyMap, !.c24 = EmptyMap, !.stats = NewCacheStats]

clearColorCaches(cs) ==
    [cs EXCEPT !.c8 = EmptyMap, !.c24 = EmptyMap, !.rgb = EmptyMap,
               !.stats = NewCacheStats]

(***************************************************************************)
(* Rasters.  A cv::Mat is [cols, rows, px]: px[y][x] is the pixel of row   *)
(* y, column x (from 1), a cv::Vec3b <<blue, green, red>>.                 *)
(***************************************************************************)
EmptyMat == [cols |-> 0, rows |-> 0, px |-> <<>>]
IsEmpty(m) == m.cols = 0 \/ m.rows = 0

BGR(c) == <<c[3], c[2], c[1]>>
White == <<255, 255, 255>>
\* The colors source pixels are drawn from: red and white.
FramePalette == {<<255, 0, 0>>, White}
Frames ==
    {[cols |-> c, rows |-> r, px |-> p] :
        <<c, r, p>> \in UNION {{<<c, r, p>> :
                          p \in [1..r -> [1..c -> {BGR(k) : k \in FramePalette}]]} :
                          c \in 1..MaxCols, r \in 1..MaxRows}}

\* struct TerminalSize {width, height}: what getTerminalSize() can return.
TermSizes == {[width |-> 6, height |-> 5], [width |-> 3, height |-> 4]}
\* The boxes a caller passes: auto (0, 0), and explicit ones.
Boxes == {<<0, 0>>, <<2, 2>>, <<3, 1>>}

\* The 70 glyphs, lightest first.  The fourth one is the backquote, which a
\* string of this notation cannot hold: it is written "backquote".
ASCII_CHARS ==
    << " ", ".", "'", "backquote", "^", "\"", ",", ":", ";", "I",
       "l", "!", "i", ">", "<", "~", "+", "_", "-", "?",
       "]", "[", "}", "{", "1", ")", "(", "|", "\\", "/",
       "t", "f", "j", "r", "x", "n", "u", "v", "c", "z",
       "X", "Y", "U", "J", "C", "L", "Q", "0", "O", "Z",
       "m", "w", "q", "p", "d", "b", "k", "h", "a", "o",
       "*", "#", "M", "W", "&", "8", "%", "B", "@", "$" >>

\* An entry computed from the ramp length instead of the last ramp index.
initializeBrightnessLookup_fullLength(i) == (i * Len(ASCII_CHARS)) \div 255

\* initializeBrightnessLookup: the entry the loop body stores at index i
\* (an unsigned 64-bit product of at most 255 * 69, so no wrap-around).
initializeBrightnessLookup(i) == (i * (Len(ASCII_CHARS) - 1)) \div 255

\* The table the constructor fills once.
brightness_to_char_idx ==
    [i \in 0..255 |-> initializeBrightnessLookup(i)]

\* ASCII_CHARS[brightness_to_char_idx[b]] (the string is indexed from 0).
Glyph(b) == ASCII_CHARS[brightness_to_char_idx[b] + 1]

Min(a, b) == IF a < b THEN a ELSE b
\* static_cast<int> of the quotient n/d, d > 0: truncation toward zero.
Trunc(n, d) == IF n >= 0 THEN n \div d ELSE -((-n) \div d)

(***************************************************************************)
(* The text buffer is the sequence of the pieces appended to it: an escape *)
(* sequence (a piece that starts with the ESC byte) or a character.        *)
(* Appending the empty string appends nothing.                             *)
(***************************************************************************)
Esc(s) == [k |-> "esc", s |-> s]
Chr(c) == [k |-> "chr", s |-> c]
Cat(out, s) == IF s = "" THEN out ELSE Append(out, Esc(s))

(***************************************************************************)
(* The auto-size and aspect-fit step of frameToAscii and                   *)
(* frameToColorBlocks.  char_aspect_ratio 2.2f is the rational 22/10 and   *)
(* the float expressions are evaluated exactly:                            *)
(*   frame_aspect > (target_width * 2.2) / target_height                   *)
(*   new_height = int(target_width / frame_aspect / 2.2)                   *)
(*   new_width  = int(target_height * frame_aspect * 2.2)                  *)
(* A zero target_height makes the right-hand side of the comparison an     *)
(* infinity (or NaN), as IEEE division does.                               *)
(***************************************************************************)
TargetBox(target_width, target_height, term) ==
    IF target_width = 0 \/ target_height = 0
    THEN <<Min(term.width - 2, 120), Min(term.height - 3, 40)>>
    ELSE <<target_width, target_height>>

NewSize(m, box) ==
    LET tw == box[1]
        th == box[2]
        wider == IF th > 0 THEN m.cols * th * 10 > 22 * tw * m.rows
                 ELSE IF th < 0 THEN m.cols * th * 10 < 22 * tw * m.rows
                 ELSE tw < 0
    IN IF wider
       THEN [w |-> tw, h |-> Trunc(tw * m.rows * 10, m.cols * 22)]
       ELSE [w |-> Trunc(th * m.cols * 22, m.rows * 10), h |-> th]

(***************************************************************************)
(* cv::resize(frame, resized, Size(new_width, new_height), INTER_AREA) is  *)
(* the raster collaborator.  It throws when a dimension is not positive.   *)
(* The model takes for each output cell the source pixel under the cell's  *)
(* origin: as area averaging does, it maps a raster of one color to a      *)
(* raster of that color.                                                   *)
(***************************************************************************)
ResizeThrows(size) == size.w <= 0 \/ size.h <= 0
Resize(m, size) ==
    [cols |-> size.w, rows |-> size.h,
     px |-> [y \in 1..size.h |-> [x \in 1..size.w |->
               m.px[((y - 1) * m.rows) \div size.h + 1]
                   [((x - 1) * m.cols) \div size.w + 1]]]]

\* cv::cvtColor(BGR2GRAY): the luma rounded to the nearest integer.
ToGray(pixel) == (299 * pixel[3] + 587 * pixel[2] + 114 * pixel[1] + 500) \div 1000

\* cv::equalizeHist on the gray raster g: the lowest level present maps to
\* 0 and level v to 255 * #{cells in (lowest, v]} / #{cells above lowest},
\* rounded; a raster of one level is left as it is.
EqualizeHist(g) ==
    LET cells == {<<y, x>> : y \in 1..g.rows, x \in 1..g.cols}
        levels == {g.px[c[1]][c[2]] : c \in cells}
        lowest == CHOOSE v \in levels : \A u \in levels : v <= u
        above == Cardinality({c \in cells : g.px[c[1]][c[2]] > lowest})
    IN IF above = 0 THEN g
       ELSE CHOOSE e \in
              {[g EXCEPT !.px = [y \in 1..g.rows |-> [x \in 1..g.cols |->
                                   lut[g.px[y][x]]]]] :
                 lut \in {[v \in levels |->
                     (2 * 255 * Cardinality({c \in cells :
                          g.px[c[1]][c[2]] > lowest /\ g.px[c[1]][c[2]] <= v})
                      + above) \div (2 * above)]}} : TRUE

\* The monochrome branch of frameToAscii: a glyph per pixel, a newline per row.
RECURSIVE MonoRows(_, _, _)
MonoRows(gray, y, out) ==
    IF y > gray.rows THEN out
    ELSE LET line == [x \in 1..gray.cols |-> Chr(Glyph(gray.px[y][x]))]
         IN MonoRows(gray, y + 1, Append(out \o line, Chr("\n")))

\* static_cast<int>(0.299 * R + 0.587 * G + 0.114 * B): the luma, summed in
\* double arithmetic, truncated.  The double sum is within 1e-12 of the
\* exact luma, a multiple of 0.001: it truncates to the floor of the exact
\* luma unless that is an integer n > 0, when the rounding of the products
\* and sums (which the build decides: with or without fused multiply-add,
\* white comes out as 254 or 255) leaves n or a value just below n.  below
\* says that it is left below.
Brightness(pixel, below) ==
    LET luma == 299 * pixel[3] + 587 * pixel[2] + 114 * pixel[1] IN
    IF below /\ luma % 1000 = 0 /\ luma > 0
    THEN luma \div 1000 - 1
    ELSE luma \div 1000

(***************************************************************************)
(* The body of the pixel loop shared by the colored branch of frameToAscii *)
(* (background = FALSE, a glyph per cell) and frameToColorBlocks           *)
(* (background = TRUE, a space per cell).  st carries the cache, the       *)
(* buffer, lastColorCode and lastPixel, and what the build makes of an     *)
(* integer luma (below).                                                   *)
(***************************************************************************)
PixelStep(st, pixel, background) ==
    LET look == getColorCodeCached(st.cs, pixel[3], pixel[2], pixel[1], background)
        s1 == IF pixel # st.lastPixel
              THEN [st EXCEPT
                      !.cs = look.cs,
                      !.out = IF look.ret # st.lastColorCode
                              THEN Cat(@, look.ret) ELSE @,
                      !.lastColorCode = IF look.ret # @ THEN look.ret ELSE @,
                      !.lastPixel = pixel]
              ELSE st
        cell == IF background THEN " " ELSE Glyph(Brightness(pixel, st.below))
    IN [s1 EXCEPT !.out = Append(@, Chr(cell))]

\* The loops are folds, in the order of the source, over the cells lo..hi
\* of a row and the rows lo..hi of a raster; a range is folded as its lower
\* half followed by its upper half, and each half's state is bound as a
\* value (s \in {...}) before the next one uses it.
RECURSIVE ScanRow(_, _, _, _, _)
ScanRow(row, lo, hi, st, background) ==
    IF lo > hi THEN st
    ELSE IF lo = hi THEN PixelStep(st, row[lo], background)
    ELSE CHOOSE r \in {ScanRow(row, (lo + hi) \div 2 + 1, hi, s, background) :
                          s \in {ScanRow(row, lo, (lo + hi) \div 2, st,
                                         background)}} : TRUE

\* One row: its pieces are collected from an empty buffer and then appended
\* to the frame's; after the pixels come resetColor() + '\n', and
\* lastColorCode.clear().
RowStep(resized, y, st, background) ==
    CHOOSE r \in {[s1 EXCEPT !.out = st.out \o
                                 Append(Cat(@, resetColor(s1.cs.mode)), Chr("\n")),
                             !.lastColorCode = ""] :
                    s1 \in {ScanRow(resized.px[y], 1, resized.cols,
                                    [st EXCEPT !.out = <<>>], background)}} : TRUE

RECURSIVE ColorRows(_, _, _, _, _)
ColorRows(resized, lo, hi, st, background) ==
    IF lo > hi THEN st
    ELSE IF lo = hi THEN RowStep(resized, lo, st, background)
    ELSE CHOOSE r \in {ColorRows(resized, (lo + hi) \div 2 + 1, hi, s, background) :
                          s \in {ColorRows(resized, lo, (lo + hi) \div 2, st,
                                           background)}} : TRUE

\* std::string lastColorCode; cv::Vec3b lastPixel = {255, 255, 255};
ScanStart(cs, below) ==
    [cs |-> cs, out |-> <<>>, lastColorCode |-> "", lastPixel |-> <<255, 255, 255>>,
     below |-> below]

\* What a render returns: the cache after it, the buffer, the size handed to
\* cv::resize, and whether cv::resize threw.
Rendered(cs, out, size, threw) == [cs |-> cs, out |-> out, size |-> size, threw |-> threw]

frameToAscii(cs, m, target_width, target_height, term, below) ==
    IF IsEmpty(m) THEN Rendered(cs, <<>>, [w |-> 0, h |-> 0], FALSE)
    ELSE LET size == NewSize(m, TargetBox(target_width, target_height, term)) IN
         IF ResizeThrows(size) THEN Rendered(cs, <<>>, size, TRUE)
         ELSE LET resized == Resize(m, size) IN
              IF cs.mode = MONO
              THEN LET gray == EqualizeHist(
                                 [resized EXCEPT !.px = [y \in 1..resized.rows |->
                                     [x \in 1..resized.cols |-> ToGray(resized.px[y][x])]]])
                   IN Rendered(cs, MonoRows(gray, 1, <<>>), size, FALSE)
              ELSE LET st == ColorRows(resized, 1, resized.rows,
                                       ScanStart(cs, below), FALSE)
                   IN Rendered(st.cs, st.out, size, FALSE)

\* frameToColorBlocks without the test of current_color_mode == MONO.
frameToColorBlocks_noFallback(cs, m, target_width, target_height, term, below) ==
    IF IsEmpty(m)
    THEN frameToAscii(cs, m, target_width, target_height, term, below)
    ELSE LET size == NewSize(m, TargetBox(target_width, target_height, term)) IN
         IF ResizeThrows(size) THEN Rendered(cs, <<>>, size, TRUE)
         ELSE LET st == ColorRows(Resize(m, size), 1, size.h,
                                  ScanStart(cs, below), TRUE)
              IN Rendered(st.cs, st.out, size, FALSE)

frameToColorBlocks(cs, m, target_width, target_height, term, below) ==
    IF IsEmpty(m) \/ cs.mode = MONO
    THEN frameToAscii(cs, m, target_width, target_height, term, below)
    ELSE LET size == NewSize(m, TargetBox(target_width, target_height, term)) IN
         IF ResizeThrows(size) THEN Rendered(cs, <<>>, size, TRUE)
         ELSE LET st == ColorRows(Resize(m, size), 1, size.h,
                                  ScanStart(cs, below), TRUE)
              IN Rendered(st.cs, st.out, size, FALSE)

\* The members' initializers: MONO, empty maps, zeroed statistics.
InitCache ==
    /\ current_color_mode = MONO
    /\ color_cache_8bit = EmptyMap
    /\ color_cache_24bit = EmptyMap
    /\ rgb_to_8bit_cache = EmptyMap
    /\ cache_stats = NewCacheStats

InitPure == arg = <<>> /\ res = <<>>

\* What is kept of a render: the buffer (the local ascii of the loops), the
\* size handed to cv::resize and whether it threw.
Output(r) == [ascii |-> r.out, size |-> r.size, threw |-> r.threw]
NoOutput == [ascii |-> <<>>, size |-> [w |-> 0, h |-> 0], threw |-> FALSE]

InitRender ==
    /\ frame = EmptyMat
    /\ width = 0 /\ height = 0
    /\ block_mode = FALSE
    /\ rendered = NoOutput
    /\ renders = 0

\* A rational p/q, q > 0, in lowest terms: the value of a double.
RECURSIVE GCD(_, _)
GCD(a, b) == IF b = 0 THEN a ELSE GCD(b, a % b)
Rat(p, q) == <<p \div GCD(p, q), q \div GCD(p, q)>>
RLess(x, y) == x[1] * y[2] < y[1] * x[2]
RMin(x, y) == IF RLess(y, x) THEN y ELSE x
RMax(x, y) == IF RLess(x, y) THEN y ELSE x

\* The terminal as the shell left it: canonical mode and echo on, the cursor
\* visible, the normal screen.
CookedTty == [canon_echo |-> TRUE, cursor |-> TRUE, alt_screen |-> FALSE]

\* The process at the start of main(), the player constructed; the locals of
\* the playback loops hold the values their declarations give them.
InitControl ==
    /\ pc = "main"
    /\ variant = "none"
    /\ exit_code = 0
    /\ exit_path = "running"
    /\ tty = CookedTty
    /\ terminal_modified = FALSE
    /\ original_termios = CookedTty.canon_echo
    /\ paused = FALSE
    /\ fullscreen_mode = FALSE
    /\ speed_multiplier = Rat(1, 1)
    /\ frame_number = 0
    /\ original_width = 0
    /\ original_height = 0
    /\ source_left = 0
    /\ keys_typed = 0
    /\ last_key = ""
    /\ slept = FALSE

(***************************************************************************)
(* SpecCache: the cache under the operations the program performs on it,   *)
(* in any order.  main() sets a mode on the fresh player before playback   *)
(* (SetMode from the initial state); the loops then look codes up while    *)
(* rendering, cycle the mode and clear the caches.  trace records every    *)
(* operation with what it returned.                                        *)
(***************************************************************************)
InitCacheSpec == InitCache /\ trace = <<>> /\ InitPure /\ InitRender /\ InitControl

Lookup ==
    /\ Len(trace) < MaxTrace
    /\ \E key \in Keys :
       \E c \in {getColorCodeCached(CacheState, key[1], key[2], key[3], key[4])} :
            /\ SetCache(c.cs)
            /\ trace' = Append(trace,
                   [op |-> "get", mode |-> current_color_mode, key |-> key,
                    ret |-> c.ret, index |-> c.index, hit |-> c.hit,
                    qhit |-> c.qhit])
    /\ UNCHANGED <<pureVars, renderVars, ctlVars>>

SetMode ==
    /\ Len(trace) < MaxTrace
    /\ \E mode \in ColorModes :
         /\ SetCache(setColorMode(CacheState, mode))
         /\ trace' = Append(trace,
                [op |-> "mode", mode |-> mode, key |-> <<>>,
                 ret |-> "", index |-> -1, hit |-> FALSE, qhit |-> FALSE])
    /\ UNCHANGED <<pureVars, renderVars, ctlVars>>

Clear ==
    /\ Len(trace) < MaxTrace
    /\ SetCache(clearColorCaches(CacheState))
    /\ trace' = Append(trace,
           [op |-> "clear", mode |-> current_color_mode, key |-> <<>>,
            ret |-> "", index |-> -1, hit |-> FALSE, qhit |-> FALSE])
    /\ UNCHANGED <<pureVars, renderVars, ctlVars>>

NextCache == Lookup \/ SetMode \/ Clear

SpecCache == InitCacheSpec /\ [][NextCache]_vars

(***************************************************************************)
(* SpecRender: the two renderers applied to a frame, a target box and a    *)
(* style drawn from the bounded sets, in the mode main() set on the fresh  *)
(* player; the same frame is rendered up to MaxRenders times (a paused     *)
(* player renders the frame it holds again), the second time from a warm   *)
(* cache.  The terminal size is queried at each render.                    *)
(***************************************************************************)
InitRenderSpec ==
    /\ current_color_mode \in ColorModes
    /\ color_cache_8bit = EmptyMap
    /\ color_cache_24bit = EmptyMap
    /\ rgb_to_8bit_cache = EmptyMap
    /\ cache_stats = NewCacheStats
    /\ trace = <<>>
    /\ InitPure
    /\ frame \in Frames
    /\ \E box \in Boxes : width = box[1] /\ height = box[2]
    /\ block_mode \in BOOLEAN
    /\ rendered = NoOutput
    /\ renders = 0
    /\ InitControl

RenderGlyph ==
    /\ ~block_mode
    /\ renders < MaxRenders
    /\ \E term \in TermSizes : \E below \in BOOLEAN :
       \E r \in {frameToAscii(CacheState, frame, width, height, term, below)} :
         SetCache(r.cs) /\ rendered' = Output(r)
    /\ renders' = renders + 1
    /\ UNCHANGED <<trace, pureVars, frame, width, height, block_mode, ctlVars>>

RenderBlocks ==
    /\ block_mode
    /\ renders < MaxRenders
    /\ \E term \in TermSizes : \E below \in BOOLEAN :
       \E r \in {frameToColorBlocks(CacheState, frame, width, height, term, below)} :
         SetCache(r.cs) /\ rendered' = Output(r)
    /\ renders' = renders + 1
    /\ UNCHANGED <<trace, pureVars, frame, width, height, block_mode, ctlVars>>

NextRender == RenderGlyph \/ RenderBlocks

SpecRender == InitRenderSpec /\ [][NextRender]_vars

(***************************************************************************)
(* SpecQuantizer: the quantizer applied to two gray levels a <= b.         *)
(***************************************************************************)
InitQuantizer ==
    /\ InitCache
    /\ trace = <<>>
    /\ arg \in {<<a, b>> : a \in Byte, b \in Byte}
    /\ arg[1] <= arg[2]
    /\ res = <<>>
    /\ InitRender
    /\ InitControl

QuantizeGrays ==
    /\ res = <<>>
    /\ res' = <<quantize(arg[1], arg[1], arg[1]), quantize(arg[2], arg[2], arg[2])>>
    /\ UNCHANGED <<cacheVars, trace, arg, renderVars, ctlVars>>

NextQuantizer == QuantizeGrays

SpecQuantizer == InitQuantizer /\ [][NextQuantizer]_vars

(***************************************************************************)
(* SpecBrightness: two entries a <= b of the brightness table are read.    *)
(***************************************************************************)
InitBrightness ==
    /\ InitCache
    /\ trace = <<>>
    /\ arg \in {<<a, b>> : a \in Byte, b \in Byte}
    /\ arg[1] <= arg[2]
    /\ res = <<>>
    /\ InitRender
    /\ InitControl

LookupBrightness ==
    /\ res = <<>>
    /\ res' = <<brightness_to_char_idx[arg[1]], brightness_to_char_idx[arg[2]]>>
    /\ UNCHANGED <<cacheVars, trace, arg, renderVars, ctlVars>>

NextBrightness == LookupBrightness

SpecBrightness == InitBrightness /\ [][NextBrightness]_vars

(***************************************************************************)
(* SpecGlyph: the brightness and the glyph of one pixel, as the colored    *)
(* branch of frameToAscii computes them.                                   *)
(***************************************************************************)
\* Pixels (B, G, R): every green level with three levels of blue and red.
LumaPixels == {<<b, g, r>> : b \in {0, 128, 255}, g \in Byte, r \in {0, 128, 255}}

InitGlyph ==
    /\ InitCache
    /\ trace = <<>>
    /\ arg \in LumaPixels
    /\ res = <<>>
    /\ InitRender
    /\ InitControl

GlyphOfPixel ==
    /\ res = <<>>
    /\ \E below \in BOOLEAN :
         res' = <<Brightness(arg, below), Glyph(Brightness(arg, below))>>
    /\ UNCHANGED <<cacheVars, trace, arg, renderVars, ctlVars>>

NextGlyph == GlyphOfPixel

SpecGlyph == InitGlyph /\ [][NextGlyph]_vars

(***************************************************************************)
(* Spec: the process from the start of main() to its exit.  main() sets    *)
(* the mode and starts playVideoAscii or playFromCamera; a loop iteration  *)
(* first drains the keys the terminal holds, one key a step, and then      *)
(* pulls, renders and paces a frame in one step.  A termination signal can *)
(* be delivered between any two steps.                                     *)
(***************************************************************************)
\* The bytes a key press delivers; "ESC" is byte 27 and "x" a byte that no
\* case names.  'B' and 'S' are labels of the cases of 'b' and 's'.
QuitKeys == {"q", "Q", "ESC"}
KeySet == {"q", "Q", "ESC", " ", "+", "=", "-", "_", "c", "C", "b", "B",
           "f", "F", "r", "R", "s", "S", "x"} \ {"B", "S"}

\* SIGINT, SIGQUIT, SIGTERM: the signals the constructor installs
\* signalHandler for.
Signals == {2, 3, 15}

\* The status the parent sees for main()'s return value or std::exit's
\* argument: its low eight bits.
ExitStatus(v) == v % 256
\* The status of a process ended by abort() (128 + SIGABRT).
AbortStatus == 134

\* The width and height main() passes to playVideoAscii: none (0, 0), or
\* the --width/--height arguments.
CliBoxes == {<<0, 0>>, <<1, 2>>}
\* The rasters a source yields: two pixels side by side, red and white.
SourceFrames ==
    {[cols |-> 2, rows |-> 1, px |-> <<<<BGR(<<255, 0, 0>>), BGR(White)>>>>]}

\* speed_multiplier * 1.5 and speed_multiplier / 1.5 without the clamp.
SpeedUp_unclamped(s) == Rat(s[1] * 3, s[2] * 2)

\* std::min(speed_multiplier * 1.5, 5.0) and
\* std::max(speed_multiplier / 1.5, 0.2), on rationals.
SpeedUp(s) == RMin(Rat(s[1] * 3, s[2] * 2), Rat(5, 1))
SpeedDown(s) == RMax(Rat(s[1] * 2, s[2] * 3), Rat(1, 5))

\* The successor taken modulo 2: the third mode is never entered.
NextMode_mod2(mode) == (mode + 1) % 2

\* static_cast<ColorMode>((current_color_mode + 1) % 3)
NextMode(mode) == (mode + 1) % 3

\* TerminalGuard's constructor and destructor, on (tty, modified, original).
GuardEnter ==
    IF ~terminal_modified
    THEN /\ original_termios' = tty.canon_echo
         /\ tty' = [canon_echo |-> FALSE, cursor |-> FALSE, alt_screen |-> TRUE]
         /\ terminal_modified' = TRUE
    ELSE UNCHANGED termVars

GuardLeave ==
    IF terminal_modified
    THEN /\ tty' = [canon_echo |-> original_termios, cursor |-> TRUE,
                    alt_screen |-> FALSE]
         /\ terminal_modified' = FALSE
         /\ UNCHANGED original_termios
    ELSE UNCHANGED termVars

Init == InitCache /\ trace = <<>> /\ InitPure /\ InitRender /\ InitControl

\* main() with a video path (from the command line, or choice 1): the mode
\* is set and playVideoAscii opens the file; when that fails main returns -1.
MainFile ==
    /\ pc = "main"
    /\ \E mode \in ColorModes : SetCache(setColorMode(CacheState, mode))
    /\ \E box \in CliBoxes : width' = box[1] /\ height' = box[2]
    /\ variant' = "file"
    /\ \/ /\ \E n \in 0..MaxFrames : source_left' = n
          /\ pc' = "info"
          /\ UNCHANGED <<exit_code, exit_path>>
       \/ /\ pc' = "exited"
          /\ exit_code' = ExitStatus(-1)
          /\ exit_path' = "open_failed"
          /\ UNCHANGED source_left
    /\ UNCHANGED <<trace, pureVars, frame, block_mode, rendered, renders,
                   termVars, paused, fullscreen_mode, speed_multiplier,
                   frame_number, original_width, original_height,
                   keys_typed, last_key, slept>>

\* playVideoAscii from displayVideoInfo's return to the loop: the guard is
\* entered and the locals are initialized.
StartFile ==
    /\ pc = "info"
    /\ GuardEnter
    /\ speed_multiplier' = Rat(1, 1)
    /\ frame' = EmptyMat
    /\ paused' = FALSE /\ block_mode' = FALSE /\ fullscreen_mode' = FALSE
    /\ frame_number' = 0
    /\ original_width' = width /\ original_height' = height
    /\ pc' = "loop"
    /\ UNCHANGED <<cacheVars, trace, pureVars, width, height, rendered, renders,
                   variant, exit_code, exit_path, source_left, keys_typed,
                   last_key, slept>>

\* main() with choice 2: the mode is set and playFromCamera() runs with its
\* default box up to the loop; its return value is not looked at, so that a
\* camera that does not open ends in main's return 0.
MainCamera ==
    /\ pc = "main"
    /\ \E mode \in ColorModes : SetCache(setColorMode(CacheState, mode))
    /\ variant' = "camera"
    /\ \/ /\ GuardEnter
          /\ width' = 80 /\ height' = 24
          /\ original_width' = 80 /\ original_height' = 24
          /\ pc' = "loop"
          /\ UNCHANGED <<exit_code, exit_path>>
       \/ /\ pc' = "exited"
          /\ exit_code' = ExitStatus(0)
          /\ exit_path' = "open_failed"
          /\ UNCHANGED <<termVars, width, height, original_width, original_height>>
    /\ UNCHANGED <<trace, pureVars, frame, block_mode, rendered, renders,
                   paused, fullscreen_mode, speed_multiplier, frame_number,
                   source_left, keys_typed, last_key, slept>>

\* main() with a choice other than 1 and 2.
MainInvalid ==
    /\ pc = "main"
    /\ pc' = "exited"
    /\ exit_code' = ExitStatus(-1)
    /\ exit_path' = "invalid_choice"
    /\ UNCHANGED <<cacheVars, trace, pureVars, renderVars, variant, termVars,
                   loopVars, keys_typed, last_key, slept>>

\* One pass of the switch of playVideoAscii: read() delivered a key.  The
\* case of 'f'/'F' has no break and runs into the case of 'r'/'R'.
FileKeyWithin(n) ==
    /\ pc = "loop" /\ variant = "file"
    /\ keys_typed < n
    /\ \E key \in KeySet :
         /\ last_key' = key
         /\ pc' = IF key \in QuitKeys THEN "cleanup" ELSE pc
         /\ exit_path' = IF key \in QuitKeys THEN "quit" ELSE exit_path
         /\ paused' = IF key = " " THEN ~paused ELSE paused
         /\ speed_multiplier' =
                IF key \in {"+", "="} THEN SpeedUp(speed_multiplier)
                ELSE IF key \in {"-", "_"} THEN SpeedDown(speed_multiplier)
                ELSE speed_multiplier
         /\ SetCache(IF key \in {"c", "C"}
                     THEN setColorMode(CacheState, NextMode(current_color_mode))
                     ELSE IF key \in {"f", "F", "r", "R"}
                     THEN clearColorCaches(CacheState)
                     ELSE CacheState)
         /\ block_mode' = IF key \in {"b", "B"} THEN ~block_mode ELSE block_mode
         /\ fullscreen_mode' =
                IF key \in {"f", "F"} THEN ~fullscreen_mode ELSE fullscreen_mode
         /\ IF key \in {"f", "F"}
            THEN IF ~fullscreen_mode
                 THEN \E term \in TermSizes :
                        width' = term.width - 2 /\ height' = term.height - 4
                 ELSE width' = original_width /\ height' = original_height
            ELSE UNCHANGED <<width, height>>
    /\ keys_typed' = keys_typed + 1
    /\ UNCHANGED <<trace, pureVars, frame, rendered, renders, variant,
                   exit_code, termVars, frame_number, original_width,
                   original_height, source_left, slept>>

\* One pass of the if-chain of playFromCamera.  's'/'S' clears the screen
\* and waits on std::cin, which changes none of the variables.
CameraKeyWithin(n) ==
    /\ pc = "loop" /\ variant = "camera"
    /\ keys_typed < n
    /\ \E key \in KeySet :
         /\ last_key' = key
         /\ pc' = IF key \in {"q", "Q"} THEN "cleanup" ELSE pc
         /\ exit_path' = IF key \in {"q", "Q"} THEN "quit" ELSE exit_path
         /\ SetCache(IF key \in {"c", "C"}
                     THEN setColorMode(CacheState, NextMode(current_color_mode))
                     ELSE IF key \in {"r", "R"}
                     THEN clearColorCaches(CacheState)
                     ELSE CacheState)
         /\ block_mode' = IF key \in {"b", "B"} THEN ~block_mode ELSE block_mode
         /\ fullscreen_mode' =
                IF key \in {"f", "F"} THEN ~fullscreen_mode ELSE fullscreen_mode
         /\ IF key \in {"f", "F"}
            THEN IF ~fullscreen_mode
                 THEN \E term \in TermSizes :
                        width' = term.width - 2 /\ height' = term.height - 4
                 ELSE width' = original_width /\ height' = original_height
            ELSE UNCHANGED <<width, height>>
    /\ keys_typed' = keys_typed + 1
    /\ UNCHANGED <<trace, pureVars, frame, rendered, renders, variant,
                   exit_code, termVars, paused, speed_multiplier, frame_number,
                   original_width, original_height, source_left, slept>>

FileKey == FileKeyWithin(MaxKeys)
CameraKey == CameraKeyWithin(MaxKeys)

\* (block_mode && current_color_mode != MONO) ? frameToColorBlocks(...)
\*                                            : frameToAscii(...)
RenderFrame(cs, m, w, h, blocks, term, below) ==
    IF blocks /\ cs.mode # MONO
    THEN frameToColorBlocks(cs, m, w, h, term, below)
    ELSE frameToAscii(cs, m, w, h, term, below)

\* The loops write the buffer to std::cout and drop it: of a render they
\* keep the size handed to cv::resize.
Shown(r) == [ascii |-> <<>>, size |-> r.size, threw |-> r.threw]

\* getTerminalSize() is called for a box with a zero dimension only.
NoTerminal == [width |-> 0, height |-> 0]

\* if (elapsed < current_delay) std::this_thread::sleep_for(...): whether
\* the time the iteration took is below the delay is the clock's choice.
Pace == slept' \in BOOLEAN

\* A read without a frame that leaves the loop in either variant.
EmptyRead_leaves(v) == pc' = "cleanup" /\ exit_path' = "eof"

\* if (!cap.read(frame) || frame.empty()): break in playVideoAscii,
\* continue in playFromCamera.
EmptyRead(v) ==
    IF v = "file"
    THEN pc' = "cleanup" /\ exit_path' = "eof"
    ELSE UNCHANGED <<pc, exit_path>>

\* The successful read of a frame whatever the pause flag.
ReadFrame_whilePaused(is_paused) ==
    /\ frame' \in SourceFrames
    /\ frame_number' = frame_number + 1
    /\ source_left' = source_left - 1

\* if (!paused) { cap.read(frame) ...; frame_number++; } with a read that
\* succeeds.
ReadFrame(is_paused) ==
    IF is_paused
    THEN UNCHANGED <<frame, frame_number, source_left>>
    ELSE /\ frame' \in SourceFrames
         /\ frame_number' = frame_number + 1
         /\ source_left' = source_left - 1

\* The render of frame f and what follows it.  cv::resize's exception is
\* caught nowhere: std::terminate ends the process by abort(), and whether
\* the stack is unwound first (the guard's destructor run) is left to the
\* implementation.
ShowFrame(f) ==
    \E term \in IF width = 0 \/ height = 0 THEN TermSizes ELSE {NoTerminal} :
    \E below \in BOOLEAN :
    \E r \in {RenderFrame(CacheState, f, width, height, block_mode, term, below)} :
        IF r.threw
        THEN /\ pc' = "exited"
             /\ exit_code' = AbortStatus
             /\ exit_path' = "abort"
             /\ GuardLeave \/ UNCHANGED termVars
             /\ UNCHANGED <<cacheVars, rendered, renders, slept>>
        ELSE /\ SetCache(r.cs)
             /\ rendered' = Shown(r)
             /\ renders' = renders + 1
             /\ Pace
             /\ UNCHANGED <<pc, exit_code, exit_path, termVars>>

\* The rest of an iteration of playVideoAscii once no key is left: pull a
\* frame unless paused (the end of the file leaves the loop), render the
\* frame held, pace.  The source bounds the iterations of a playing loop;
\* those of a paused one are bounded by MaxRenders.
FileTick ==
    /\ pc = "loop" /\ variant = "file"
    /\ IF ~paused /\ source_left = 0
       THEN /\ EmptyRead(variant)
            /\ UNCHANGED <<cacheVars, frame, rendered, renders, exit_code,
                           termVars, frame_number, source_left, slept>>
       ELSE /\ paused => renders < MaxRenders
            /\ ReadFrame(paused)
            /\ IF IsEmpty(frame')
               THEN /\ Pace
                    /\ UNCHANGED <<cacheVars, rendered, renders, pc, exit_code,
                                   exit_path, termVars>>
               ELSE ShowFrame(frame')
    /\ UNCHANGED <<trace, pureVars, width, height, block_mode, variant, paused,
                   fullscreen_mode, speed_multiplier, original_width,
                   original_height, keys_typed, last_key>>

\* The rest of an iteration of playFromCamera: a read that fails or yields
\* an empty frame skips the iteration.
CameraTick ==
    /\ pc = "loop" /\ variant = "camera"
    /\ renders < MaxRenders
    /\ \/ /\ frame' = EmptyMat
          /\ EmptyRead(variant)
          /\ UNCHANGED <<cacheVars, rendered, renders, exit_code, termVars,
                         slept>>
       \/ /\ frame' \in SourceFrames
          /\ ShowFrame(frame')
    /\ UNCHANGED <<trace, pureVars, width, height, block_mode, variant,
                   loopVars, keys_typed, last_key>>

\* From the cleanup label to the end of main(): the guard is left and
\* main returns 0.
Return ==
    /\ pc = "cleanup"
    /\ GuardLeave
    /\ pc' = "exited"
    /\ exit_code' = ExitStatus(0)
    /\ UNCHANGED <<cacheVars, trace, pureVars, renderVars, variant, exit_path,
                   loopVars, keys_typed, last_key, slept>>

\* signalHandler: the cursor is shown and the alternate screen left, then
\* std::exit(signal), which runs no destructor of main's locals.
Signal ==
    /\ pc # "exited"
    /\ \E sig \in Signals : exit_code' = ExitStatus(sig)
    /\ tty' = [tty EXCEPT !.cursor = TRUE, !.alt_screen = FALSE]
    /\ pc' = "exited"
    /\ exit_path' = "signal"
    /\ UNCHANGED <<cacheVars, trace, pureVars, renderVars, variant,
                   terminal_modified, original_termios, loopVars, keys_typed,
                   last_key, slept>>

Next ==
    \/ MainFile \/ StartFile \/ MainCamera \/ MainInvalid
    \/ FileKey \/ CameraKey \/ FileTick \/ CameraTick
    \/ Return \/ Signal

Spec == Init /\ [][Next]_vars

(***************************************************************************)
(* SpecKeys: the inner loop while (read(STDIN_FILENO, &key, 1) > 0) of     *)
(* either playback, on a burst of up to MaxBurst keys, from the state in   *)
(* which the playback enters its loop.                                     *)
(***************************************************************************)
InitKeys ==
    /\ current_color_mode \in ColorModes
    /\ color_cache_8bit = EmptyMap
    /\ color_cache_24bit = EmptyMap
    /\ rgb_to_8bit_cache = EmptyMap
    /\ cache_stats = NewCacheStats
    /\ trace = <<>>
    /\ InitPure
    /\ frame = EmptyMat
    /\ block_mode = FALSE
    /\ rendered = NoOutput
    /\ renders = 0
    /\ pc = "loop"
    /\ \/ /\ variant = "file"
          /\ \E box \in CliBoxes : width = box[1] /\ height = box[2]
       \/ variant = "camera" /\ width = 80 /\ height = 24
    /\ exit_code = 0
    /\ exit_path = "running"
    /\ tty = [canon_echo |-> FALSE, cursor |-> FALSE, alt_screen |-> TRUE]
    /\ terminal_modified = TRUE
    /\ original_termios = CookedTty.canon_echo
    /\ paused = FALSE
    /\ fullscreen_mode = FALSE
    /\ speed_multiplier = Rat(1, 1)
    /\ frame_number = 0
    /\ original_width = width
    /\ original_height = height
    /\ source_left \in 0..MaxFrames
    /\ keys_typed = 0
    /\ last_key = ""
    /\ slept = FALSE

FileKeyBurst == FileKeyWithin(MaxBurst)
CameraKeyBurst == CameraKeyWithin(MaxBurst)

NextKeys == FileKeyBurst \/ CameraKeyBurst

SpecKeys == InitKeys /\ [][NextKeys]_vars

(***************************************************************************)
(* SpecFileLoop: the loop of playVideoAscii from its entry: keys are read  *)
(* and iterations completed until the loop is left.                        *)
(***************************************************************************)
InitFileLoop == InitKeys /\ variant = "file"

NextFileLoop == FileKey \/ FileTick

SpecFileLoop == InitFileLoop /\ [][NextFileLoop]_vars

\* The loop runs on its own: an iteration that can be completed is.  This
\* is weak fairness of FileTick, stated on what an iteration is seen to do:
\* Iterate is enabled exactly where FileTick is, and the steps of
\* NextFileLoop that satisfy it and change iterVars are the steps of
\* FileTick that change the state (evaluating ENABLED FileTick would render
\* a frame with every sub-expression recomputed at each use).
iterVars == <<pc, frame_number, renders, slept>>

Iterate ==
    /\ pc = "loop" /\ variant = "file"
    /\ paused => renders < MaxRenders
    /\ keys_typed' = keys_typed
    /\ pc' \in {"loop", "cleanup", "exited"}
    /\ frame_number' \in {frame_number, frame_number + 1}
    /\ renders' \in {renders, renders + 1}
    /\ slept' \in BOOLEAN

SpecFileLive == SpecFileLoop /\ WF_iterVars(Iterate)

(***************************************************************************)
(* SpecLoops: the loop of playVideoAscii or of playFromCamera from its     *)
(* entry, without the signals, on up to MaxLoopKeys keys.  The camera has  *)
(* no count of frames left.                                                *)
(***************************************************************************)
InitLoops == InitKeys /\ (variant = "camera" => source_left = 0)

LoopFileKey == FileKeyWithin(MaxLoopKeys)
LoopCameraKey == CameraKeyWithin(MaxLoopKeys)

NextLoops == LoopFileKey \/ LoopCameraKey \/ FileTick \/ CameraTick

SpecLoops == InitLoops /\ [][NextLoops]_vars

(***************************************************************************)
(* Claims on the cache (SpecCache).                                        *)
(***************************************************************************)
Colored == {COLOR_8BIT, COLOR_24BIT}

\* The operations since the caches and counters were last all empty and
\* zero: since construction, or since the last clearColorCaches.
LastClear ==
    LET cl == {i \in 1..Len(trace) : trace[i].op = "clear"}
    IN IF cl = {} THEN 0 ELSE CHOOSE i \in cl : \A j \in cl : j <= i
SinceClear == SubSeq(trace, LastClear + 1, Len(trace))

\* SinceClear is: mode changes only, then M lookups of pairwise-distinct
\* keys, then the same M lookups again.
TwoPasses(M) ==
    LET t == SinceClear
        n == Len(t) - 2 * M
    IN /\ n >= 0
       /\ \A i \in 1..n : t[i].op = "mode"
       /\ \A i \in (n + 1)..Len(t) : t[i].op = "get"
       /\ \A i \in 1..M : t[n + i].key = t[n + M + i].key
       /\ \A i, j \in 1..M : i # j => t[n + i].key # t[n + j].key

\* C2: from cleared caches and zeroed counters, in a colored mode, M lookups
\* of pairwise-distinct keys followed by the same M lookups leave
\* misses = M and hits = M.
C2_TwoPassCounts ==
    \A M \in 1..MaxTrace :
        (current_color_mode \in Colored /\ TwoPasses(M))
            => (cache_stats.misses = M /\ cache_stats.hits = M)

IndexedCode(key, index) ==
    "ESC[" \o (IF key[4] THEN "48" ELSE "38") \o ";5;" \o ToString(index) \o "m"
TrueColorCode(key) ==
    "ESC[" \o (IF key[4] THEN "48" ELSE "38") \o ";2;" \o ToString(key[1])
    \o ";" \o ToString(key[2]) \o ";" \o ToString(key[3]) \o "m"

\* The step appends lookup e of a key that was looked up under another
\* colored mode before the mode was last set, and not since.
FirstLookupAfterSwitch(e) ==
    /\ trace' = Append(trace, e)
    /\ e.op = "get"
    /\ e.mode \in Colored
    /\ \E i, j \in 1..Len(trace) :
         /\ i < j
         /\ trace[i].op = "get" /\ trace[i].key = e.key
         /\ trace[i].mode \in Colored /\ trace[i].mode # e.mode
         /\ trace[j].op = "mode" /\ trace[j].mode = e.mode
         /\ \A k \in (j + 1)..Len(trace) :
              /\ trace[k].op # "mode"
              /\ ~(trace[k].op = "get" /\ trace[k].key = e.key)

\* C8: the first lookup of a key after a switch between two distinct colored
\* modes, the key having been cached under the mode left, is a miss (misses
\* increases by one, hits is unchanged) and returns the code of the new mode.
C8_SwitchThenMiss ==
    [][\A e \in {trace'[Len(trace')]} :
          FirstLookupAfterSwitch(e) =>
            /\ cache_stats'.misses = cache_stats.misses + 1
            /\ cache_stats'.hits = cache_stats.hits
            /\ e.ret = IF e.mode = COLOR_24BIT
                       THEN TrueColorCode(e.key)
                       ELSE IndexedCode(e.key, quantize(e.key[1], e.key[2], e.key[3]))
      ]_vars

\* C10: every call of rgbTo8BitColorCached returns, for the same (r,g,b),
\* the same index, on a hit as on a miss and whatever lookups, mode switches
\* and clears happened in between; for a non-achromatic input that index is
\* 16 + 36*floor(5r/255) + 6*floor(5g/255) + floor(5b/255).
QuantizerCalls == {i \in 1..Len(trace) : trace[i].index # -1}
Achromatic(key) == key[1] = key[2] /\ key[2] = key[3]
CubeIndex(key) ==
    16 + 36 * ((5 * key[1]) \div 255) + 6 * ((5 * key[2]) \div 255)
       + ((5 * key[3]) \div 255)
SameRGB(k1, k2) == k1[1] = k2[1] /\ k1[2] = k2[2] /\ k1[3] = k2[3]

C10_QuantizerDeterministic ==
    \A i \in QuantizerCalls :
        /\ \A j \in QuantizerCalls :
             SameRGB(trace[i].key, trace[j].key) => trace[i].index = trace[j].index
        /\ ~Achromatic(trace[i].key) => trace[i].index = CubeIndex(trace[i].key)

\* A hit of the quantizer cache on a non-achromatic color whose earlier
\* miss is in the history, and the same color quantized again after a clear.
C10_Witness ==
    /\ \E i, j \in QuantizerCalls :
         /\ i < j /\ SameRGB(trace[i].key, trace[j].key)
         /\ ~Achromatic(trace[i].key)
         /\ ~trace[i].qhit /\ trace[j].qhit
    /\ \E i \in 1..Len(trace) : trace[i].op \in {"clear", "mode"}

\* The step performs the cache operation op.
OpStep(op) ==
    /\ Len(trace') = Len(trace) + 1
    /\ trace'[Len(trace')].op = op

\* C12: clearColorCaches, in whatever state it is called, leaves the three
\* caches empty and hits, misses and cache_size at 0, and does not change
\* the mode.
C12_ClearEmptiesAll ==
    [][OpStep("clear") =>
          /\ color_cache_8bit' = EmptyMap
          /\ color_cache_24bit' = EmptyMap
          /\ rgb_to_8bit_cache' = EmptyMap
          /\ cache_stats'.hits = 0
          /\ cache_stats'.misses = 0
          /\ cache_stats'.cache_size = 0
          /\ current_color_mode' = current_color_mode
      ]_vars

\* A clear right after a miss and a hit in COLOR_8BIT, which had left
\* entries in two caches and both counters above 0.
C12_Witness ==
    /\ Len(trace) >= 3
    /\ trace[Len(trace)].op = "clear"
    /\ trace[Len(trace)].mode = COLOR_8BIT
    /\ trace[Len(trace) - 1].op = "get" /\ trace[Len(trace) - 1].hit
    /\ trace[Len(trace) - 2].op = "get" /\ ~trace[Len(trace) - 2].hit
    /\ current_color_mode = COLOR_8BIT

\* The text the lookup of key owes under mode.
CodeOf(mode, key) ==
    IF mode = COLOR_8BIT
    THEN IndexedCode(key, quantize(key[1], key[2], key[3]))
    ELSE TrueColorCode(key)

\* The cache of escape codes of a colored mode.
CodeCache(mode, c8, c24) == IF mode = COLOR_8BIT THEN c8 ELSE c24

\* C16: a lookup in a colored mode returns ESC[38;5;{index}m or
\* ESC[48;5;{index}m in the indexed mode, index the quantizer's result for
\* the key's RGB, and ESC[38;2;{r};{g};{b}m or ESC[48;2;{r};{g};{b}m in the
\* true-color mode, on a hit as on a miss; it hits exactly when the key
\* itself (the ground included) is cached, and every entry of the mode's
\* cache holds the code of its own key, so that the two grounds of one RGB
\* value have two entries with different codes.
C16_EscapeFormat ==
    [][(OpStep("get") /\ current_color_mode \in Colored) =>
          LET e == trace'[Len(trace')]
              before == CodeCache(current_color_mode, color_cache_8bit,
                                  color_cache_24bit)
              after == CodeCache(current_color_mode, color_cache_8bit',
                                 color_cache_24bit')
          IN /\ e.ret = CodeOf(current_color_mode, e.key)
             /\ e.hit <=> e.key \in DOMAIN before
             /\ DOMAIN after = DOMAIN before \cup {e.key}
             /\ \A k \in DOMAIN after : after[k] = CodeOf(current_color_mode, k)
             /\ \A k \in DOMAIN after :
                    \A twin \in {<<k[1], k[2], k[3], ~k[4]>>} \cap DOMAIN after :
                        after[twin] # after[k] ]_vars

\* In the indexed mode: the foreground key of an RGB value missed, its
\* background key missed next, then the foreground key hit.
C16_Witness ==
    /\ Len(trace) >= 3
    /\ current_color_mode = COLOR_8BIT
    /\ \A i \in 0..2 : /\ trace[Len(trace) - i].op = "get"
                        /\ trace[Len(trace) - i].mode = COLOR_8BIT
    /\ ~trace[Len(trace) - 2].hit /\ ~trace[Len(trace) - 2].key[4]
    /\ ~trace[Len(trace) - 1].hit /\ trace[Len(trace) - 1].key[4]
    /\ trace[Len(trace)].hit
    /\ trace[Len(trace)].key = trace[Len(trace) - 2].key
    /\ \A j \in 1..3 : trace[Len(trace) - 1].key[j] = trace[Len(trace)].key[j]

\* C24: the indexed escape cache and the RGB-to-index cache are empty
\* whenever the mode is not COLOR_8BIT, the true-color escape cache is
\* empty whenever the mode is not COLOR_24BIT, and setColorMode to the mode
\* already current changes no cache and no counter.
C24_OnlyCurrentModeCached ==
    /\ [](current_color_mode # COLOR_8BIT =>
             (color_cache_8bit = EmptyMap /\ rgb_to_8bit_cache = EmptyMap))
    /\ [](current_color_mode # COLOR_24BIT => color_cache_24bit = EmptyMap)
    /\ [][(OpStep("mode") /\ trace'[Len(trace')].mode = current_color_mode) =>
             UNCHANGED cacheVars]_vars

\* The indexed mode set, a lookup (a miss that fills both indexed caches),
\* the indexed mode set again, then the true-color mode set.
C24_Witness ==
    /\ Len(trace) = 4
    /\ trace[1].op = "mode" /\ trace[1].mode = COLOR_8BIT
    /\ trace[2].op = "get" /\ ~trace[2].hit
    /\ trace[3].op = "mode" /\ trace[3].mode = COLOR_8BIT
    /\ trace[4].op = "mode" /\ trace[4].mode = COLOR_24BIT
    /\ current_color_mode = COLOR_24BIT
    /\ color_cache_8bit = EmptyMap /\ rgb_to_8bit_cache = EmptyMap

(***************************************************************************)
(* Claims on the quantizer (SpecQuantizer).                                *)
(***************************************************************************)
GrayIndex(i) == i \in {16, 231} \/ i \in 232..255

\* C9 as stated: for gray levels a <= b the indices are in {16, 231} or
\* 232..255 and index(a) <= index(b).
C9_GrayMonotone ==
    res # <<>> => /\ GrayIndex(res[1]) /\ GrayIndex(res[2])
                  /\ res[1] <= res[2]

\* C9 amended: the indices are in {16, 231} or 232..255; index(a) <= index(b)
\* for a <= b <= 248; every level above 248 has index 231.
C9_GrayMonotoneTo248 ==
    res # <<>> => /\ GrayIndex(res[1]) /\ GrayIndex(res[2])
                  /\ arg[2] <= 248 => res[1] <= res[2]
                  /\ arg[2] > 248 => res[2] = 231

\* Two levels of the ramp with different indices, both quantized.
C9_Witness ==
    /\ res # <<>>
    /\ 8 <= arg[1] /\ arg[1] < arg[2] /\ arg[2] <= 248
    /\ res[1] < res[2]

(***************************************************************************)
(* Claims on the brightness table (SpecBrightness).                        *)
(***************************************************************************)
\* t is the floor of b * (N - 1) / 255, N the length of the glyph ramp.
IsFloor(t, b) ==
    /\ t * 255 <= b * (Len(ASCII_CHARS) - 1)
    /\ b * (Len(ASCII_CHARS) - 1) < (t + 1) * 255

\* C15: every entry of the brightness table is floor(b * (N - 1) / 255) and
\* an index of the glyph ramp (0..N-1); the table has the 256 entries
\* 0..255, its first entry is 0, its last one is N - 1, and for a <= b the
\* entry of a is at most the entry of b.
C15_BrightnessTable ==
    /\ DOMAIN brightness_to_char_idx = 0..255
    /\ brightness_to_char_idx[0] = 0
    /\ brightness_to_char_idx[255] = Len(ASCII_CHARS) - 1
    /\ res # <<>> =>
          /\ IsFloor(res[1], arg[1]) /\ IsFloor(res[2], arg[2])
          /\ res[1] \in 0..(Len(ASCII_CHARS) - 1)
          /\ res[2] \in 0..(Len(ASCII_CHARS) - 1)
          /\ res[1] <= res[2]

\* Two levels with different entries, the upper one the brightest, both read.
C15_Witness ==
    /\ res # <<>>
    /\ 0 < arg[1] /\ arg[1] < arg[2] /\ arg[2] = 255
    /\ 0 < res[1] /\ res[1] < res[2]

\* cache_size of the cache state cs is the number of entries it holds.
SizeRecorded(cs) ==
    cs.stats.cache_size = Size(cs.rgb) + Size(cs.c8) + Size(cs.c24)

\* C26: after every completed cache operation (escape-code lookup,
\* setColorMode, clearColorCaches, and the quantizer lookup nested in an
\* indexed escape-code miss) cache_size equals the sum of the numbers of
\* entries of color_cache_8bit, color_cache_24bit and rgb_to_8bit_cache.
C26_SizeIsSum ==
    /\ SizeRecorded(CacheState)
    /\ \A key \in Keys :
         SizeRecorded(rgbTo8BitColorCached(CacheState, key[1], key[2], key[3]).cs)

\* Two indexed lookups of one color, foreground then background: two escape
\* codes and one quantizer entry, the second lookup's quantizer call a hit.
C26_Witness ==
    /\ Len(trace) >= 3
    /\ trace[Len(trace)].op = "get"
    /\ trace[Len(trace)].qhit
    /\ current_color_mode = COLOR_8BIT
    /\ Size(color_cache_8bit) = 2
    /\ Size(rgb_to_8bit_cache) = 1
    /\ cache_stats.cache_size = 3

(***************************************************************************)
(* Claims on the glyph of a pixel (SpecGlyph).                             *)
(***************************************************************************)
\* round(0.299 R + 0.587 G + 0.114 B) for the pixel (B, G, R).
RoundedLuma(pixel) ==
    (299 * pixel[3] + 587 * pixel[2] + 114 * pixel[1] + 500) \div 1000

\* C25: the brightness used for a pixel is within 0..255 and the glyph
\* emitted is the ramp's entry for the luma rounded to the nearest integer.
C25_RoundedGlyph ==
    res # <<>> =>
        /\ res[1] \in 0..255
        /\ res[2] = ASCII_CHARS[brightness_to_char_idx[RoundedLuma(arg)] + 1]

(***************************************************************************)
(* Claims on the renderers (SpecRender).                                   *)
(***************************************************************************)
Uniform(m) ==
    \A y1, y2 \in 1..m.rows : \A x1, x2 \in 1..m.cols :
        m.px[y1][x1] = m.px[y2][x2]

\* The rows of a buffer: what precedes each newline, back to the previous one.
Newlines(out) == {i \in 1..Len(out) : out[i] = Chr("\n")}
RowOf(out, i) ==
    LET before == {j \in Newlines(out) : j < i}
        start == IF before = {} THEN 1
                 ELSE 1 + CHOOSE j \in before : \A k \in before : k <= j
    IN SubSeq(out, start, i - 1)

IsColorEscape(piece) == piece.k = "esc" /\ piece.s # "ESC[0m"

\* One color escape, before the cells, and the reset sequence last.
OneEscapeRow(row) ==
    /\ Len(row) >= 3
    /\ IsColorEscape(row[1])
    /\ \A j \in 2..(Len(row) - 1) : row[j].k = "chr"
    /\ row[Len(row)] = Esc("ESC[0m")

\* C1: a raster of one color rendered in a colored mode, glyph or block
\* style: every row of the buffer holds exactly one color escape, before the
\* row's cells, and ends with the reset sequence.
C1_OneEscapePerRow ==
    (renders > 0 /\ current_color_mode \in Colored /\ Uniform(frame)
       /\ ~rendered.threw)
    => /\ Cardinality(Newlines(rendered.ascii)) = rendered.size.h
       /\ \A i \in Newlines(rendered.ascii) : OneEscapeRow(RowOf(rendered.ascii, i))

\* The cells of a row, and the color escapes that precede piece c in it.
Cells(row) == {c \in 1..Len(row) : row[c].k = "chr"}
EscapesBefore(row, c) == {j \in 1..(c - 1) : IsColorEscape(row[j])}

\* C17: in a colored mode, for every cell of every row of the buffer, the
\* most recent escape earlier in the same row is a color escape and is the
\* code of the cell's own pixel (foreground in glyph style, background in
\* block style); no cell is printed under a reset or another pixel's color.
C17_CellColor ==
    (renders > 0 /\ current_color_mode \in Colored /\ ~rendered.threw
       /\ rendered.ascii # <<>>)
    => LET out == rendered.ascii
           resized == Resize(frame, rendered.size)
       IN \A i \in Newlines(out) :
            LET row == RowOf(out, i)
                y == Cardinality({j \in Newlines(out) : j <= i})
            IN \A c \in Cells(row) :
                 LET x == Cardinality({d \in Cells(row) : d <= c})
                     pixel == resized.px[y][x]
                     before == EscapesBefore(row, c)
                 IN /\ before # {}
                    /\ \A j \in before :
                          (\A k \in before : k <= j) =>
                             row[j].s = CodeOf(current_color_mode,
                                           ColorKey(pixel[3], pixel[2], pixel[1],
                                                    block_mode))

RenderStep == renders' = renders + 1

\* C14: in MONO no piece of the rendered buffer is an escape sequence, in
\* glyph as in block style; the block renderer returns what the glyph
\* renderer returns; getColorCodeCached and resetColor return the empty
\* string; and neither a render nor a lookup changes a cache or a counter.
C14_MonoNoEscape ==
    /\ [](current_color_mode = MONO =>
            /\ resetColor(current_color_mode) = ""
            /\ \A key \in Keys :
                 \A c \in {getColorCodeCached(CacheState, key[1], key[2],
                                              key[3], key[4])} :
                    c.ret = "" /\ c.cs = CacheState)
    /\ [][(current_color_mode = MONO /\ RenderStep) =>
            /\ \A i \in 1..Len(rendered'.ascii) : rendered'.ascii[i].k = "chr"
            /\ \E term \in TermSizes : \E below \in BOOLEAN :
                 rendered' = Output(frameToAscii(CacheState, frame, width,
                                                 height, term, below))
            /\ UNCHANGED cacheVars
      ]_vars

\* A block-style render in MONO that produced a glyph other than a space.
C14_Witness ==
    /\ current_color_mode = MONO
    /\ block_mode
    /\ renders > 0
    /\ \E i \in 1..Len(rendered.ascii) : rendered.ascii[i].s \notin {" ", "\n"}

(***************************************************************************)
(* Claims on the key loop (SpecKeys).                                      *)
(***************************************************************************)
\* A step that processes a key.
KeyStep == keys_typed' = keys_typed + 1

\* 0.2 <= s <= 5.0 for the rational s.
InSpeedRange(s) == s[2] <= 5 * s[1] /\ s[1] <= 5 * s[2]
\* The rational s equals p/q.
SpeedIs(s, p, q) == s[1] * q = p * s[2]

\* C5: in file playback the speed starts at 1.0, is within [0.2, 5.0] after
\* every key, becomes min(s*1.5, 5.0) on '+'/'=', max(s/1.5, 0.2) on
\* '-'/'_', and is unchanged by every other key.
C5_SpeedClamp ==
    /\ (variant = "file" => SpeedIs(speed_multiplier, 1, 1))
    /\ [][(variant = "file" /\ KeyStep) =>
            LET s == speed_multiplier
                t == speed_multiplier'
            IN /\ InSpeedRange(t)
               /\ last_key' \in {"+", "="} =>
                    IF 3 * s[1] > 10 * s[2] THEN SpeedIs(t, 5, 1)
                    ELSE SpeedIs(t, 3 * s[1], 2 * s[2])
               /\ last_key' \in {"-", "_"} =>
                    IF 10 * s[1] < 3 * s[2] THEN SpeedIs(t, 1, 5)
                    ELSE SpeedIs(t, 2 * s[1], 3 * s[2])
               /\ last_key' \notin {"+", "=", "-", "_"} => t = s
      ]_vars

\* The fourth '+' or '=' in a row, from 3.375: the product 5.0625 is cut to 5.0.
C5_Witness ==
    /\ variant = "file"
    /\ last_key \in {"+", "="}
    /\ keys_typed = 4
    /\ SpeedIs(speed_multiplier, 5, 1)

\* C11: a 'c'/'C' key takes MONO to COLOR_8BIT, COLOR_8BIT to COLOR_24BIT
\* and COLOR_24BIT to MONO, in either variant, and no other key changes the
\* mode; the successor applied three times is the identity on the modes,
\* applied once or twice it has no fixed point.
C11_ModeCycle ==
    /\ [](\A m \in ColorModes :
             /\ NextMode(NextMode(NextMode(m))) = m
             /\ NextMode(m) # m
             /\ NextMode(NextMode(m)) # m)
    /\ [][KeyStep =>
            IF last_key' \in {"c", "C"}
            THEN \/ current_color_mode = MONO /\ current_color_mode' = COLOR_8BIT
                 \/ current_color_mode = COLOR_8BIT
                      /\ current_color_mode' = COLOR_24BIT
                 \/ current_color_mode = COLOR_24BIT /\ current_color_mode' = MONO
            ELSE current_color_mode' = current_color_mode
      ]_vars

\* The third 'c'/'C' of a burst, in the camera variant, has wrapped the mode
\* round to MONO.
C11_Witness ==
    /\ variant = "camera"
    /\ keys_typed >= 3
    /\ last_key \in {"c", "C"}
    /\ current_color_mode = MONO

(***************************************************************************)
(* Claims on the loop of playVideoAscii (SpecFileLoop).                    *)
(***************************************************************************)
\* Stopped: the loop was left by a quit key or at the end of the source.
Stopped == pc = "cleanup" \/ (pc = "exited" /\ exit_path \in {"quit", "eof"})

\* A step of the loop that reads no key: the rest of an iteration.
TickStep == pc = "loop" /\ variant = "file" /\ ~KeyStep

\* C19: while the file player is paused, no step pulls a frame or changes
\* the frame index, and the end of the source is not found; a key read
\* while paused is processed: space resumes, 'q', 'Q' and Esc leave the loop.
C19_PausedHolds ==
    [][(pc = "loop" /\ variant = "file" /\ paused) =>
          /\ frame' = frame
          /\ frame_number' = frame_number
          /\ source_left' = source_left
          /\ exit_path' # "eof"
          /\ KeyStep =>
                /\ last_key' = " " => ~paused'
                /\ last_key' \in {"q", "Q", "ESC"} =>
                       (pc' = "cleanup" /\ exit_path' = "quit")
                /\ last_key' \notin {"q", "Q", "ESC"} => pc' = "loop"
                /\ last_key' # " " => paused'
      ]_vars

\* A paused iteration that rendered the frame held, with the source at its
\* end, followed by a quit key: one frame pulled, two renders.
C19_Witness ==
    /\ variant = "file" /\ paused
    /\ renders = 2 /\ frame_number = 1 /\ source_left = 0
    /\ last_key \in {"q", "Q", "ESC"}
    /\ pc = "cleanup" /\ exit_path = "quit"

\* C20: an iteration of the file player that runs while paused performs no
\* pacing sleep.
C20_NoSleepPaused ==
    [][(TickStep /\ paused /\ pc' = "loop") => ~slept']_vars

\* C23: in every iteration of the file player that holds a frame and does
\* not find the source at its end, whatever
\* the box (configured, taken from the terminal, or set by 'f'/'F'), the
\* width and the height handed to the resampler are at least 1: the
\* resampler does not throw and the frame is rendered at such a size.
C23_PositiveSize ==
    [][(TickStep /\ ~IsEmpty(frame') /\ exit_path' # "eof") =>
          /\ exit_path' # "abort"
          /\ renders' = renders + 1
          /\ rendered'.size.w >= 1 /\ rendered'.size.h >= 1]_vars

\* C22: in the file variant an iteration whose read yields no frame leaves
\* the loop at Stopped; in the camera variant it renders nothing, changes
\* no cache and stays in the loop, and the camera loop is left at Stopped
\* only by the processing of a quit key.
C22_EmptyRead ==
    /\ [][(TickStep /\ ~paused /\ source_left = 0) =>
             (pc' = "cleanup" /\ exit_path' = "eof" /\ Stopped')]_vars
    /\ [][(pc = "loop" /\ variant = "camera" /\ ~KeyStep /\ IsEmpty(frame')) =>
             /\ pc' = "loop" /\ exit_path' = exit_path
             /\ UNCHANGED <<renders, rendered, cacheVars>>]_vars
    /\ [][(variant = "camera" /\ ~Stopped /\ Stopped') =>
             (KeyStep /\ last_key' \in QuitKeys /\ exit_path' = "quit")]_vars

\* The camera loop after a render, then a read without a frame, then a
\* quit key.
C22_Witness ==
    /\ variant = "camera"
    /\ renders = 1 /\ IsEmpty(frame)
    /\ pc = "cleanup" /\ last_key \in QuitKeys

\* C21: file playback of a source of N frames (N = frame_number +
\* source_left, which no step changes): the frame index never exceeds N;
\* while no key was read every iteration with a frame left pulls one; and
\* if no quit key arrives and the player is not paused forever, the loop
\* is eventually left at Stopped with frame index N.
C21_FileTerminates ==
    /\ [](source_left >= 0)
    /\ [][frame_number' + source_left' = frame_number + source_left]_vars
    /\ [][(TickStep /\ keys_typed = 0 /\ source_left > 0) =>
             frame_number' = frame_number + 1]_vars
    /\ ([]<>(~paused) /\ [](last_key \notin QuitKeys))
          => <>(Stopped /\ source_left = 0)

(***************************************************************************)
(* Claims on the process (Spec).                                           *)
(***************************************************************************)
\* C3: when playback has ended, by a quit key, the end of the source or a
\* termination signal, the terminal is as it was on entry: canonical mode
\* and echo restored, the cursor shown, the alternate screen left.
C3_TerminalRestored ==
    (pc = "exited" /\ exit_path \in {"quit", "eof", "signal"})
        => tty = CookedTty

\* C4: a source that does not open, file or camera, ends the process with a
\* non-zero code and an untouched terminal; the code is zero only after the
\* end of the source or a quit key.
C4_OpenFailureExit ==
    pc = "exited" =>
        /\ exit_path = "open_failed" =>
              (exit_code # 0 /\ tty = CookedTty /\ ~terminal_modified)
        /\ exit_code = 0 => exit_path \in {"quit", "eof"}

\* C6: no step other than the processing of an 'r'/'R' key lowers the hit
\* or the miss counter.
C6_CountersMonotone ==
    [][~(KeyStep /\ last_key' \in {"r", "R"}) =>
            /\ cache_stats'.hits >= cache_stats.hits
            /\ cache_stats'.misses >= cache_stats.misses
      ]_vars

\* C18: in either variant the processing of an 'f'/'F' key flips the
\* fullscreen flag and sets the box (on enable from the terminal's size, on
\* disable to the configured one) and leaves the three caches, the
\* counters, the mode, the pause flag, the speed and the block style as
\* they were.
C18_FullscreenOnly ==
    [][(KeyStep /\ last_key' \in {"f", "F"}) =>
          /\ fullscreen_mode' = ~fullscreen_mode
          /\ IF fullscreen_mode'
             THEN \E term \in TermSizes :
                    width' = term.width - 2 /\ height' = term.height - 4
             ELSE width' = original_width /\ height' = original_height
          /\ UNCHANGED <<color_cache_8bit, color_cache_24bit, rgb_to_8bit_cache,
                         cache_stats, current_color_mode>>
          /\ UNCHANGED <<paused, speed_multiplier, block_mode>>
      ]_vars

\* C7: in either variant the processing of 'q', 'Q' or Esc leads to Stopped,
\* and from Stopped no frame is pulled or rendered and no key is processed.
C7_QuitStops ==
    [][/\ (KeyStep /\ last_key' \in {"q", "Q", "ESC"}) => Stopped'
       /\ Stopped => /\ pc' # "loop"
                     /\ UNCHANGED <<frame, frame_number, source_left, renders,
                                    rendered, keys_typed, last_key>>
      ]_vars

====
